---- MODULE Spec2Model ----
(***************************************************************************)
(* Historias Infinitas: the session controller (App), its story and image  *)
(* adapters (geminiService) and the events the presentation layer sends.   *)
(*                                                                         *)
(* React state is the model's state.  Every event handler and every        *)
(* continuation of an awaited promise is one atomic action, because the    *)
(* JavaScript event loop runs each to completion.  The promises that are   *)
(* still unresolved are kept in pendingStory, each with the arguments its  *)
(* processTurn call captured, and in pendingImage.                         *)
(***************************************************************************)
EXTENDS Integers, Sequences, FiniteSets, TLC

VARIABLES
    mode,             \* 'START' | 'PLAYING' | 'GAMEOVER'
    theme,            \* theme picked by clicking a suggestion
    customTheme,      \* content of the free-text theme input
    hp,               \* health (a JS number: an integer or NaN)
    inventory,        \* sequence of item names
    currentTurn,      \* the live turn, or NullTurn
    isStoryLoading,   \* storyPending
    isImageLoading,   \* imagePending
    isTypingComplete, \* textRevealComplete
    issued,           \* number of processTurn calls made so far
    pendingStory,     \* processTurn calls awaiting generateStorySegment, with their arguments
    pendingImage,     \* ids of turns whose generateSceneImage promise is unresolved
    revealing,        \* the Typewriter is still revealing the live turn's text
    last,             \* the latest session-controller event (history variable)
    nonIntegerDelta,  \* some processed response carried no integer hpChange (history variable)
    afterReset,       \* resetGame has run and handleStartGame has not started a game since (history variable)
    openingTheme      \* theme of the opening request of the session in progress, "" when none (history variable)

vars == <<mode, theme, customTheme, hp, inventory, currentTurn, isStoryLoading,
          isImageLoading, isTypingComplete, issued, pendingStory, pendingImage,
          revealing, last, nonIntegerDelta, afterReset, openingTheme>>

-----------------------------------------------------------------------------
(* Bounds and data *)

\* Number of processTurn calls one behaviour may make.
MaxRequests == 2

INITIAL_HP == 100

\* NaN, the result of arithmetic on undefined; no health value is negative.
NaN == -1000000

\* null / undefined for strings
Null == "<null>"
Undefined == "<undefined>"

THEME_POOL == {"Steampunk"}

\* What the user may type into the free-text input.
TypedTexts == {"", " ", "Isla"}

\* trim(): the typed texts are either blank or have no outer blanks.
Trim(s) == IF s = " " THEN "" ELSE s

\* a || b on strings: the empty string is falsy.
OrElse(a, b) == IF a # "" THEN a ELSE b

NullTurn == [tid |-> 0, text |-> "", imageUrl |-> Undefined, choices |-> <<>>]

TurnOf(id, text, choices) ==
    [tid |-> id, text |-> text, imageUrl |-> Undefined, choices |-> choices]

-----------------------------------------------------------------------------
(* The story service and its adapter (geminiService.generateStorySegment) *)

TwoChoices == << [id |-> "1", text |-> "Avanzar"], [id |-> "2", text |-> "Descansar"] >>

FallbackChoices ==
    << [id |-> "retry",  text |-> "Intentar de nuevo"],
       [id |-> "wait",   text |-> "Esperar un momento"],
       [id |-> "run",    text |-> "Huir en panico"],
       [id |-> "scream", text |-> "Gritar al vacio"] >>

\* The fixed response returned when the call fails.
Fallback ==
    [json |-> "object", missing |-> {},
     narrative |-> "La niebla se espesa",
     hpChange |-> 0, inventoryAdd |-> <<>>, inventoryRemove |-> <<>>,
     visualDescription |-> "foggy mystery void",
     isGameOver |-> FALSE, choices |-> FallbackChoices]

\* The fields the response schema requires.
RequiredFields ==
    {"narrative", "hpChange", "inventoryAdd", "inventoryRemove",
     "visualDescription", "isGameOver", "choices"}

\* Values the service can answer with.  A JSON text parses to an object, some
\* of whose required fields may be missing (missing), or to null (json).
BasePayload ==
    [json |-> "object", missing |-> {},
     narrative |-> "n1",
     hpChange |-> 0, inventoryAdd |-> <<>>, inventoryRemove |-> <<>>,
     visualDescription |-> "scene",
     isGameOver |-> FALSE, choices |-> TwoChoices]

HpChanges == {-70, 50}

\* Health changes, with and without the game-over flag.
HealthPayloads ==
    {[BasePayload EXCEPT !.hpChange = h, !.isGameOver = g] :
        h \in HpChanges, g \in BOOLEAN}

\* <<items gained, items lost>>: a single gain, an item listed twice, two
\* gains, a loss, an item both gained and lost, a loss of another item.
ItemChanges ==
    { << <<"torch">>, <<>> >>,
      << <<"torch", "torch">>, <<>> >>,
      << <<"key", "torch">>, <<>> >>,
      << <<>>, <<"torch">> >>,
      << <<"torch">>, <<"torch">> >>,
      << <<>>, <<"key">> >> }

\* Inventory changes; these carry no visual description.
ItemPayloads ==
    {[BasePayload EXCEPT !.inventoryAdd = c[1], !.inventoryRemove = c[2],
                         !.visualDescription = ""] : c \in ItemChanges}

\* The JSON text "null".
NullPayload == [BasePayload EXCEPT !.json = "null", !.missing = RequiredFields]

\* Parsable answers that violate the schema: one required field missing
\* (narrative and choices are only copied by the controller, so their absence
\* is not enumerated), or no object at all.
MalformedPayloads ==
    {[BasePayload EXCEPT !.missing = {f}] :
        f \in {"hpChange", "inventoryAdd", "inventoryRemove",
               "visualDescription", "isGameOver"}}
    \cup {NullPayload}

Payloads == HealthPayloads \cup ItemPayloads \cup MalformedPayloads

\* A payload that conforms to storySchema.
Conforms(d) == d.json = "object" /\ d.missing = {}

\* What ai.models.generateContent does: it throws, answers without text, or
\* answers with a text that JSON.parse rejects or parses to value.
NoOutcome == [kind |-> "none", parsable |-> FALSE, value |-> BasePayload]

ServiceOutcomes ==
    {[kind |-> "throws", parsable |-> FALSE, value |-> BasePayload],
     [kind |-> "notext", parsable |-> FALSE, value |-> BasePayload],
     [kind |-> "text",   parsable |-> FALSE, value |-> BasePayload]}
    \cup {[kind |-> "text", parsable |-> TRUE, value |-> d] : d \in Payloads}

\* Mutant of generateStorySegment: an answer without text is not turned into
\* an error, so the caller receives no response object.
generateStorySegmentNoThrow(o) ==
    IF o.kind = "text" /\ o.parsable THEN o.value
    ELSE IF o.kind = "notext" THEN NullPayload ELSE Fallback

\* generateStorySegment: the parsed text, cast without any validation, or the
\* fallback when the call or JSON.parse throws or there is no text.
generateStorySegment(o) ==
    IF o.kind = "text" /\ o.parsable THEN o.value ELSE Fallback

-----------------------------------------------------------------------------
(* The image service and its adapter (geminiService.generateSceneImage) *)

\* What the image call does: it throws, answers without an inline image
\* part, or answers with one.
ImageOutcomes == {"throws", "noimage", "image"}

\* The image drawn from the visual description of the turn published by call id.
ImageFor(id) == "data:image/png;base64," \o ToString(id)

\* generateSceneImage for that description: the data URL, or undefined.
generateSceneImage(id, o) ==
    IF o = "image" THEN ImageFor(id) ELSE Undefined

-----------------------------------------------------------------------------
(* The turn engine: the state merge inside processTurn *)

\* JavaScript arithmetic: NaN is contagious, and undefined converts to NaN.
Plus(a, b) == IF a = NaN \/ b = NaN THEN NaN ELSE a + b
MathMax(a, b) == IF a = NaN \/ b = NaN THEN NaN ELSE IF a >= b THEN a ELSE b
MathMin(a, b) == IF a = NaN \/ b = NaN THEN NaN ELSE IF a <= b THEN a ELSE b

HpChangeOf(d) == IF "hpChange" \in d.missing THEN NaN ELSE d.hpChange

\* Mutant of NewHp: the lower clamp is missing.
NewHpNoFloor(currentHp, d) == MathMin(100, Plus(currentHp, HpChangeOf(d)))

\* const newHp = Math.min(100, Math.max(0, currentHp + storyData.hpChange))
NewHp(currentHp, d) == MathMin(100, MathMax(0, Plus(currentHp, HpChangeOf(d))))

Includes(list, item) == \E i \in 1..Len(list) : list[i] = item

\* newInv.filter(item => !storyData.inventoryRemove.includes(item))
FilterRemoved(inv, remove) ==
    SelectSeq(inv, LAMBDA item : ~Includes(remove, item))

\* storyData.inventoryAdd.forEach(item => { if (!newInv.includes(item)) newInv.push(item) })
RECURSIVE PushNew(_, _)
PushNew(inv, add) ==
    IF add = <<>> THEN inv
    ELSE PushNew(IF Includes(inv, Head(add)) THEN inv ELSE Append(inv, Head(add)),
                 Tail(add))

\* Mutant of NewInv: gained items are appended without the includes test.
NewInvNoCheck(currentInv, d) ==
    FilterRemoved(currentInv, d.inventoryRemove) \o d.inventoryAdd

\* Mutant of NewInv: the gained items are pushed before the lost ones are
\* filtered out.
NewInvAddThenFilter(currentInv, d) ==
    FilterRemoved(PushNew(currentInv, d.inventoryAdd), d.inventoryRemove)

NewInv(currentInv, d) ==
    PushNew(FilterRemoved(currentInv, d.inventoryRemove), d.inventoryAdd)

\* Reading a property of null, or calling a method of undefined, throws a
\* TypeError inside processTurn's try block.
Throws(d) ==
    \/ d.json = "null"
    \/ "inventoryRemove" \in d.missing
    \/ "inventoryAdd" \in d.missing

\* Mutant of IsTerminal: only the flag of the response is consulted.
IsTerminalFlagOnly(d, newHp) == "isGameOver" \notin d.missing /\ d.isGameOver

\* storyData.isGameOver || newHp <= 0   (undefined is falsy, NaN <= 0 is false)
IsTerminal(d, newHp) ==
    \/ ("isGameOver" \notin d.missing /\ d.isGameOver)
    \/ (newHp # NaN /\ newHp <= 0)

\* if (storyData.visualDescription): undefined and "" are falsy
WantsImage(d) ==
    "visualDescription" \notin d.missing /\ d.visualDescription # ""

\* const areChoicesVisible = !isStoryLoading && isTypingComplete && !isImageLoading
areChoicesVisible == ~isStoryLoading /\ isTypingComplete /\ ~isImageLoading

-----------------------------------------------------------------------------
(* The session controller *)

\* The arguments of a processTurn call; id numbers the calls.
Call(id, currentTheme, currentHp, currentInv, choiceText) ==
    [id |-> id, theme |-> currentTheme, hp |-> currentHp, inv |-> currentInv,
     choiceText |-> choiceText]

NoCall == Call(0, "", 0, <<>>, Null)

\* An event: the handler, the processTurn call it starts or continues (or, for
\* an image, the call that published the turn), and what the service answered.
Event(op, call, outcome, url) ==
    [op |-> op, call |-> call, outcome |-> outcome, url |-> url]

Init ==
    /\ mode = "START"
    /\ theme = ""
    /\ customTheme = ""
    /\ hp = INITIAL_HP
    /\ inventory = <<>>
    /\ currentTurn = NullTurn
    /\ isStoryLoading = FALSE
    /\ isImageLoading = FALSE
    /\ isTypingComplete = FALSE
    /\ issued = 0
    /\ pendingStory = {}
    /\ pendingImage = {}
    /\ revealing = FALSE
    /\ last = Event("init", NoCall, NoOutcome, Undefined)
    /\ nonIntegerDelta = FALSE
    /\ afterReset = FALSE
    /\ openingTheme = ""

\* Start screen: a suggestion button is clicked.
ClickSuggestion(t) ==
    /\ mode = "START"
    /\ theme' = t
    /\ customTheme' = t
    /\ UNCHANGED <<openingTheme, afterReset, last, nonIntegerDelta, mode, hp, inventory, currentTurn,
                   isStoryLoading, isImageLoading,
                   isTypingComplete, issued, pendingStory, pendingImage, revealing>>

\* Start screen: the free-text input changes.
TypeCustomTheme(s) ==
    /\ mode = "START"
    /\ customTheme' = s
    /\ UNCHANGED <<openingTheme, afterReset, last, nonIntegerDelta, mode, theme, hp, inventory, currentTurn, isStoryLoading,
                   isImageLoading, isTypingComplete, issued, pendingStory,
                   pendingImage, revealing>>

\* processTurn up to its await: the three flags and the outbound story call.
ProcessTurnBegin(currentTheme, currentHp, currentInv, choiceText) ==
    /\ isStoryLoading' = TRUE
    /\ isTypingComplete' = FALSE
    /\ isImageLoading' = FALSE
    /\ issued' = issued + 1
    /\ pendingStory' = pendingStory \cup
                        {Call(issued + 1, currentTheme, currentHp, currentInv, choiceText)}

\* The start button is enabled: disabled={!customTheme || isStoryLoading}
StartEnabled == mode = "START" /\ customTheme # "" /\ ~isStoryLoading

\* Mutant of selectedTheme: the typed text is taken as it is.
selectedThemeUntrimmed == OrElse(customTheme, theme)

selectedTheme == OrElse(Trim(customTheme), theme)

\* handleStartGame with a selected theme, while fewer than n story requests
\* have been issued.
StartGameUpTo(n) ==
    /\ StartEnabled
    /\ selectedTheme # ""
    /\ issued < n
    /\ mode' = "PLAYING"
    /\ hp' = INITIAL_HP
    /\ inventory' = <<>>
    /\ customTheme' = ""
    /\ currentTurn' = NullTurn
    /\ revealing' = FALSE
    /\ ProcessTurnBegin(selectedTheme, INITIAL_HP, <<>>, Null)
    /\ last' = Event("start", Call(issued + 1, selectedTheme, INITIAL_HP, <<>>, Null),
                     NoOutcome, Undefined)
    /\ afterReset' = FALSE
    /\ openingTheme' = selectedTheme
    /\ UNCHANGED <<nonIntegerDelta, theme, pendingImage>>

\* handleStartGame with a selected theme.
StartGame == StartGameUpTo(MaxRequests)

\* handleStartGame when the trimmed input and the clicked theme are both empty.
StartGameIgnored ==
    /\ StartEnabled
    /\ selectedTheme = ""
    /\ last' = Event("startIgnored", NoCall, NoOutcome, Undefined)
    /\ UNCHANGED <<openingTheme, afterReset, nonIntegerDelta, mode, theme, customTheme, hp, inventory, currentTurn,
                   isStoryLoading, isImageLoading, isTypingComplete, issued,
                   pendingStory, pendingImage, revealing>>

\* The choice buttons are rendered: mode PLAYING, a live turn, areChoicesVisible;
\* each is disabled while isStoryLoading.
ChoicesRendered ==
    /\ mode = "PLAYING"
    /\ currentTurn # NullTurn
    /\ areChoicesVisible
    /\ ~isStoryLoading

\* Mutant of SelectChoice: the buttons are those of the fallback turn, whatever
\* the live turn offers.
SelectChoiceFallbackButtons(i) ==
    /\ ChoicesRendered
    /\ i \in 1..Len(currentTurn.choices)
    /\ issued < MaxRequests
    /\ ProcessTurnBegin(OrElse(theme, customTheme), hp, inventory,
                        FallbackChoices[i].text)
    /\ last' = Event("choice", Call(issued + 1, OrElse(theme, customTheme), hp, inventory,
                                 FallbackChoices[i].text),
                     NoOutcome, Undefined)
    /\ UNCHANGED <<openingTheme, afterReset, nonIntegerDelta, mode, theme, customTheme, hp, inventory, currentTurn,
                   pendingImage, revealing>>

\* handleChoice(choice) for the i-th button of the live turn, while fewer than n
\* story requests have been issued.
SelectChoiceUpTo(i, n) ==
    /\ ChoicesRendered
    /\ i \in 1..Len(currentTurn.choices)
    /\ issued < n
    /\ ProcessTurnBegin(OrElse(theme, customTheme), hp, inventory,
                        currentTurn.choices[i].text)
    /\ last' = Event("choice", Call(issued + 1, OrElse(theme, customTheme), hp, inventory,
                                 currentTurn.choices[i].text),
                     NoOutcome, Undefined)
    /\ UNCHANGED <<openingTheme, afterReset, nonIntegerDelta, mode, theme, customTheme, hp, inventory, currentTurn,
                   pendingImage, revealing>>

\* handleChoice(choice) for the i-th button of the live turn.
SelectChoice(i) == SelectChoiceUpTo(i, MaxRequests)

\* processTurn after its await, when the merge throws: the catch block.
ProcessTurnCatch(c, o) ==
    /\ c \in pendingStory
    /\ Throws(generateStorySegment(o))
    /\ pendingStory' = pendingStory \ {c}
    /\ mode' = "START"
    /\ isStoryLoading' = FALSE
    /\ last' = Event("catch", c, o, Undefined)
    /\ UNCHANGED <<openingTheme, afterReset, nonIntegerDelta, theme, customTheme, hp, inventory, currentTurn, isImageLoading,
                   isTypingComplete, issued, pendingImage, revealing>>

\* processTurn after its await, game-over branch.
ProcessTurnGameOver(c, o) ==
    LET storyData == generateStorySegment(o)
        newHp == NewHp(c.hp, storyData)
    IN  /\ c \in pendingStory
        /\ ~Throws(storyData)
        /\ IsTerminal(storyData, newHp)
        /\ pendingStory' = pendingStory \ {c}
        /\ hp' = newHp
        /\ inventory' = NewInv(c.inv, storyData)
        /\ mode' = "GAMEOVER"
        /\ currentTurn' = TurnOf(c.id, storyData.narrative, <<>>)
        /\ revealing' = TRUE
        /\ isStoryLoading' = FALSE
        /\ last' = Event("gameover", c, o, Undefined)
        /\ nonIntegerDelta' = (nonIntegerDelta \/ "hpChange" \in storyData.missing)
        /\ UNCHANGED <<openingTheme, afterReset, theme, customTheme, isImageLoading,
                       isTypingComplete, issued, pendingImage>>

\* processTurn after its await, ordinary branch: publish the turn without an
\* image and start the image request when there is a visual description.
ProcessTurnPublish(c, o) ==
    LET storyData == generateStorySegment(o)
        newHp == NewHp(c.hp, storyData)
    IN  /\ c \in pendingStory
        /\ ~Throws(storyData)
        /\ ~IsTerminal(storyData, newHp)
        /\ pendingStory' = pendingStory \ {c}
        /\ hp' = newHp
        /\ inventory' = NewInv(c.inv, storyData)
        /\ currentTurn' = TurnOf(c.id, storyData.narrative, storyData.choices)
        /\ revealing' = TRUE
        /\ isStoryLoading' = FALSE
        /\ IF WantsImage(storyData)
             THEN /\ isImageLoading' = TRUE
                  /\ pendingImage' = pendingImage \cup {c.id}
             ELSE UNCHANGED <<isImageLoading, pendingImage>>
        /\ last' = Event("publish", c, o, Undefined)
        /\ nonIntegerDelta' = (nonIntegerDelta \/ "hpChange" \in storyData.missing)
        /\ UNCHANGED <<openingTheme, afterReset, mode, theme, customTheme, isTypingComplete, issued>>

\* The .then continuation of generateSceneImage for the turn published by call id:
\* setCurrentTurn(prev => prev ? { ...prev, imageUrl: url } : null)
PatchImage(prev, id, url) ==
    IF prev # NullTurn THEN [prev EXCEPT !.imageUrl = url] ELSE NullTurn

\* Mutant of ImageResolved: the spinner is cleared only when an image arrived.
ImageResolvedSpinnerOnFailure(id, o) ==
    /\ id \in pendingImage
    /\ pendingImage' = pendingImage \ {id}
    /\ currentTurn' = PatchImage(currentTurn, id, generateSceneImage(id, o))
    /\ isImageLoading' = (isImageLoading /\ o # "image")
    /\ last' = Event("image", [NoCall EXCEPT !.id = id], NoOutcome,
                     generateSceneImage(id, o))
    /\ UNCHANGED <<openingTheme, afterReset, nonIntegerDelta, mode, theme, customTheme, hp, inventory,
                   isStoryLoading, isTypingComplete, issued, pendingStory, revealing>>

ImageResolved(id, o) ==
    /\ id \in pendingImage
    /\ pendingImage' = pendingImage \ {id}
    /\ currentTurn' = PatchImage(currentTurn, id, generateSceneImage(id, o))
    /\ isImageLoading' = FALSE
    /\ last' = Event("image", [NoCall EXCEPT !.id = id], NoOutcome,
                     generateSceneImage(id, o))
    /\ UNCHANGED <<openingTheme, afterReset, nonIntegerDelta, mode, theme, customTheme, hp, inventory, isStoryLoading,
                   isTypingComplete, issued, pendingStory, revealing>>

\* resetGame: the restart button of the play screen and of the game-over screen.
Reset ==
    /\ mode \in {"PLAYING", "GAMEOVER"}
    /\ mode' = "START"
    /\ hp' = INITIAL_HP
    /\ inventory' = <<>>
    /\ currentTurn' = NullTurn
    /\ revealing' = FALSE
    /\ isStoryLoading' = FALSE
    /\ isImageLoading' = FALSE
    /\ isTypingComplete' = FALSE
    /\ last' = Event("reset", NoCall, NoOutcome, Undefined)
    /\ afterReset' = TRUE
    /\ openingTheme' = ""
    /\ UNCHANGED <<nonIntegerDelta, theme, customTheme, issued, pendingStory,
                   pendingImage>>

\* The Typewriter component is mounted (play screen with a live turn) and is
\* still revealing the narrative: it reveals each published text once.
TypewriterRunning ==
    /\ mode = "PLAYING"
    /\ currentTurn # NullTurn
    /\ revealing

\* onTextComplete, called by the Typewriter when the reveal finishes.
OnTextComplete ==
    /\ TypewriterRunning
    /\ isTypingComplete' = TRUE
    /\ revealing' = FALSE
    /\ last' = Event("typed", NoCall, NoOutcome, Undefined)
    /\ UNCHANGED <<openingTheme, afterReset, nonIntegerDelta, mode, theme, customTheme, hp, inventory, currentTurn,
                   isStoryLoading, isImageLoading, issued, pendingStory, pendingImage>>

Next ==
    \/ \E t \in THEME_POOL : ClickSuggestion(t)
    \/ \E s \in TypedTexts : TypeCustomTheme(s)
    \/ StartGame
    \/ StartGameIgnored
    \/ \E i \in 1..4 : SelectChoice(i)
    \/ \E c \in pendingStory, o \in ServiceOutcomes : ProcessTurnCatch(c, o)
    \/ \E c \in pendingStory, o \in ServiceOutcomes : ProcessTurnGameOver(c, o)
    \/ \E c \in pendingStory, o \in ServiceOutcomes : ProcessTurnPublish(c, o)
    \/ \E id \in pendingImage, o \in ImageOutcomes : ImageResolved(id, o)
    \/ Reset
    \/ OnTextComplete

Spec == Init /\ [][Next]_vars

-----------------------------------------------------------------------------
(* Shorthands for the properties *)

\* The step just taken is a controller event (a suggestion click or a
\* keystroke leaves last unchanged).
Handled(op) == last' # last /\ last'.op = op

\* The response the latest processTurn continuation received from the adapter.
LastData == generateStorySegment(last.outcome)

Processed == last.op \in {"publish", "gameover"}

NoDuplicates(list) ==
    \A i, j \in 1..Len(list) : list[i] = list[j] => i = j

-----------------------------------------------------------------------------
(* C1 *)

\* C1: stale-turn guard.  The live turn never carries an image other than the
\* one requested for it: an image result is written into the live turn's
\* imageUrl only when the live turn is the turn the image was requested for.
C1_StaleTurnGuard ==
    (currentTurn # NullTurn /\ currentTurn.imageUrl # Undefined)
        => currentTurn.imageUrl = ImageFor(currentTurn.tid)

(* C2 *)

\* C2: whenever the choices are visible, no story request is outstanding and
\* the image request issued for the live turn, if any, has resolved.
C2_ChoicesAfterSettled ==
    areChoicesVisible =>
        /\ pendingStory = {}
        /\ currentTurn.tid \notin pendingImage

(* C3 *)

\* C3: as long as every processed response carried an integer health change,
\* the health, and the health captured by every outstanding call, is an
\* integer in [0, 100], and the latest update stored
\* clamp(health + healthDelta, 0, 100).
C3_HealthClamped ==
    ~nonIntegerDelta =>
        /\ hp \in 0..100
        /\ \A c \in pendingStory : c.hp \in 0..100
        /\ Processed =>
              LET sum == last.call.hp + LastData.hpChange
              IN  hp = IF sum < 0 THEN 0 ELSE IF sum > 100 THEN 100 ELSE sum

\* C3 witness: a response whose health change overshoots the range was stored.
C3_Witness ==
    /\ ~nonIntegerDelta
    /\ Processed
    /\ \/ last.call.hp + LastData.hpChange < 0 /\ hp = 0
       \/ last.call.hp + LastData.hpChange > 100 /\ hp = 100

(* C4 *)

C5_GameOverOnlyFromPlaying ==
    [][ Handled("gameover") => mode = "PLAYING" ]_vars

(* C6 *)

\* C6: in every state with mode GAMEOVER the live turn has no choices and no
\* scene image.
C6_TerminalTurnBare ==
    mode = "GAMEOVER" =>
        /\ currentTurn.choices = <<>>
        /\ currentTurn.imageUrl = Undefined

(* C7 *)

C8_AdapterValidates ==
    last.op \in {"publish", "gameover", "catch"} =>
        (Conforms(LastData) \/ LastData = Fallback)

(* C9 *)

\* C9: after the catch branch of processTurn has run, mode is START, health is
\* 100, the inventory is empty, there is no live turn and neither flag is set.
C9_FatalClearsAll ==
    last.op = "catch" =>
        /\ mode = "START"
        /\ hp = INITIAL_HP
        /\ inventory = <<>>
        /\ currentTurn = NullTurn
        /\ ~isStoryLoading
        /\ ~isImageLoading

(* C10 *)

\* C10: the inventory, and the inventory captured by every outstanding call,
\* never holds an item name twice.
C10_NoDuplicateItems ==
    /\ NoDuplicates(inventory)
    /\ \A c \in pendingStory : NoDuplicates(c.inv)

\* C10 witness: a response that gains an item already held, or lists an item
\* twice, or both gains and loses it, has been merged.
C10_Witness ==
    /\ Processed
    /\ \/ \E i \in 1..Len(LastData.inventoryAdd) :
             Includes(last.call.inv, LastData.inventoryAdd[i])
       \/ ~NoDuplicates(LastData.inventoryAdd)
       \/ \E i \in 1..Len(LastData.inventoryAdd) :
             Includes(LastData.inventoryRemove, LastData.inventoryAdd[i])

(* C11 *)

Range(list) == {list[i] : i \in 1..Len(list)}

\* The reference merge: the items of inv not named in lost, in their prior
\* order, followed by the first occurrences in gained of the items that are
\* not retained, in the order listed.
ReferenceMerge(inv, gained, lost) ==
    LET retained == SelectSeq(inv, LAMBDA item : item \notin Range(lost))
        fresh == {i \in 1..Len(gained) :
                     /\ gained[i] \notin Range(retained)
                     /\ \A j \in 1..(i - 1) : gained[j] # gained[i]}
        nth(k) == CHOOSE i \in fresh : Cardinality({j \in fresh : j <= i}) = k
    IN  retained \o [k \in 1..Cardinality(fresh) |-> gained[nth(k)]]

C11_AbsentLossReached ==
    /\ Processed
    /\ last.call.inv = <<"torch">>
    /\ LastData.inventoryRemove = <<"key">>
    /\ inventory = <<"torch">>

(* C12 *)

\* The session data as resetGame leaves them.
SessionCleared ==
    /\ mode = "START"
    /\ currentTurn = NullTurn
    /\ inventory = <<>>
    /\ hp = INITIAL_HP
    /\ ~isStoryLoading
    /\ ~isImageLoading

\* C12: from a Reset until the next StartGame the session stays cleared: mode
\* is START, there is no live turn, the inventory is empty, health is 100 and
\* neither storyPending nor imagePending is set, whatever arrives in between.
C12_ResetStaysCleared == afterReset => SessionCleared

(* C13 *)

\* C13: every story request the controller issues carries a non-empty theme
\* and a health in [0, 100], and a request issued by SelectChoice carries the
\* text of the chosen option (null is passed by StartGame only).
C13_RequestsWellFormed ==
    /\ \A c \in pendingStory : c.theme # "" /\ c.hp \in 0..100
    /\ last.op = "choice" => last.call.choiceText # Null

(* C14 *)

\* The play screen shows the turn published by call k and waits for no story.
LiveTurn(k) ==
    /\ mode = "PLAYING"
    /\ currentTurn # NullTurn
    /\ currentTurn.tid = k
    /\ ~isStoryLoading

\* The runtime eventually runs what it has scheduled: the timers of the text
\* reveal fire while a turn is being revealed, and every promise of
\* generateSceneImage settles (the adapter catches every error and returns).
FairSpec ==
    /\ Spec
    /\ WF_vars(OnTextComplete)
    /\ WF_vars(\E id \in 1..MaxRequests, o \in ImageOutcomes : ImageResolved(id, o))

\* C14: when the image request of the live turn of the play screen resolves,
\* with an image or with absence, imagePending becomes false and narrative and
\* choices stay as they were; on absence the scene image is absent; if the
\* text reveal had completed, the choices are visible at once.  And the play
\* screen never stays for ever on one live turn with its choices hidden: a
\* live turn whose image request and text reveal are let run gets visible
\* choices unless a Reset or another turn takes its place first (turn ids
\* never repeat, so LiveTurn(k) ~> areChoicesVisible \/ ~LiveTurn(k) for every
\* k is this recurrence).
C14_ImageFailureDoesNotBlock ==
    /\ [][ (Handled("image") /\ LiveTurn(last'.call.id)) =>
              /\ ~isImageLoading'
              /\ currentTurn'.text = currentTurn.text
              /\ currentTurn'.choices = currentTurn.choices
              /\ last'.url = Undefined => currentTurn'.imageUrl = Undefined
              /\ isTypingComplete => areChoicesVisible'
         ]_vars
    /\ []<>(areChoicesVisible \/ ~LiveTurn(currentTurn.tid))

\* C14 witness: the image request of the live turn failed and its choices are
\* visible, its image absent.
C14_Witness ==
    /\ last.op = "image"
    /\ last.url = Undefined
    /\ LiveTurn(last.call.id)
    /\ currentTurn.imageUrl = Undefined
    /\ currentTurn.choices # <<>>
    /\ areChoicesVisible

(* C15 *)

\* The story calls a step adds to the outstanding ones.
NewCalls == pendingStory' \ pendingStory

\* C15: a story request that carries a chosen option is issued only by
\* SelectChoice, and SelectChoice acts only from a state where mode is PLAYING,
\* a live turn exists and the option sent is one of that turn's choices; it
\* leaves mode, health, inventory and the live turn as they are.
C15_ChoiceOnlyFromLiveTurn ==
    [][ /\ (\E c \in NewCalls : c.choiceText # Null) => Handled("choice")
        /\ Handled("choice") =>
              /\ mode = "PLAYING"
              /\ currentTurn # NullTurn
              /\ \E i \in 1..Len(currentTurn.choices) :
                    currentTurn.choices[i].text = last'.call.choiceText
              /\ NewCalls = {last'.call}
              /\ UNCHANGED <<mode, hp, inventory, currentTurn>>
      ]_vars

\* C15 witness: a request carrying the option "Avanzar" of the live turn is
\* outstanding.
C15_Witness ==
    /\ last.op = "choice"
    /\ last.call \in pendingStory
    /\ last.call.choiceText = "Avanzar"
    /\ mode = "PLAYING"
    /\ currentTurn # NullTurn

(* C16 *)

\* C16: StartGame with a non-empty selected theme (the trimmed text, else the
\* clicked suggestion) stores health 100, an empty inventory, no live turn,
\* mode PLAYING, storyPending true, text reveal and imagePending false, and
\* issues exactly one story request: that theme, no prior choice, health 100,
\* empty inventory.  With an empty selected theme it issues nothing and
\* leaves the whole session state as it was.
C16_StartGameEffect ==
    [][ /\ Handled("start") =>
              /\ mode' = "PLAYING"
              /\ hp' = 100
              /\ inventory' = <<>>
              /\ currentTurn' = NullTurn
              /\ isStoryLoading'
              /\ ~isTypingComplete'
              /\ ~isImageLoading'
              /\ Cardinality(NewCalls) = 1
              /\ pendingStory \subseteq pendingStory'
              /\ \A c \in NewCalls :
                    /\ c.theme # ""
                    /\ c.theme = (IF Trim(customTheme) # "" THEN Trim(customTheme) ELSE theme)
                    /\ c.choiceText = Null
                    /\ c.hp = 100
                    /\ c.inv = <<>>
        /\ Handled("startIgnored") =>
              /\ Trim(customTheme) = ""
              /\ theme = ""
              /\ UNCHANGED <<mode, theme, customTheme, hp, inventory, currentTurn,
                             isStoryLoading, isImageLoading, isTypingComplete,
                             issued, pendingStory, pendingImage>>
        /\ (mode = "START" /\ mode' = "PLAYING") => Handled("start")
      ]_vars

\* C16 witness: the opening request of a started session is outstanding.
C16_Witness ==
    /\ last.op = "start"
    /\ pendingStory = {last.call}
    /\ last.call.theme = "Isla"
    /\ mode = "PLAYING"
    /\ isStoryLoading

\* C16, second case reached: the start button was pressed on blank text with
\* no suggestion clicked.
C16_IgnoredReached ==
    /\ last.op = "startIgnored"
    /\ mode = "START"
    /\ customTheme = " "

(* C17 *)

\* The response of the step is terminal: reported game over, or health
\* clamped to 0.
TerminalStep ==
    LET d == generateStorySegment(last'.outcome)
    IN  ("isGameOver" \notin d.missing /\ d.isGameOver) \/ hp' = 0

\* The step starts the scene-image request of the turn it publishes.
StartsImage ==
    /\ last'.call.id \notin pendingImage
    /\ pendingImage' = pendingImage \cup {last'.call.id}
    /\ isImageLoading'

\* C17: processing a terminal response publishes the turn, sets storyPending
\* to false, starts no scene-image request and leaves imagePending false, even
\* with a visual description; processing a non-terminal response starts an
\* image request exactly when the visual description is non-empty.
C17_NoImageForTerminalTurn ==
    [][ (Handled("publish") \/ Handled("gameover")) =>
           LET d == generateStorySegment(last'.outcome)
           IN  /\ currentTurn'.tid = last'.call.id
               /\ ~isStoryLoading'
               /\ TerminalStep =>
                     /\ pendingImage' = pendingImage
                     /\ ~isImageLoading'
               /\ ~TerminalStep =>
                     /\ StartsImage <=>
                           ("visualDescription" \notin d.missing /\ d.visualDescription # "")
                     /\ StartsImage \/ pendingImage' = pendingImage
      ]_vars

(* C18 *)

\* Sessions of one more story request than MaxRequests, in which the service
\* always answers with a well-formed, non-terminal turn: one that heals and
\* has a visual description, or one that gives a torch and has none.
DeepRequests == MaxRequests + 1

OrdinaryOutcomes ==
    {o \in ServiceOutcomes :
        /\ o.parsable
        /\ o.value \in {[BasePayload EXCEPT !.hpChange = 50],
                        [BasePayload EXCEPT !.inventoryAdd = <<"torch">>,
                                            !.visualDescription = ""]}}

DeepNext ==
    \/ TypeCustomTheme("Isla")
    \/ StartGameUpTo(DeepRequests)
    \/ SelectChoiceUpTo(1, DeepRequests)
    \/ \E c \in pendingStory, o \in OrdinaryOutcomes : ProcessTurnPublish(c, o)
    \/ \E id \in pendingImage, o \in ImageOutcomes : ImageResolved(id, o)
    \/ Reset
    \/ OnTextComplete

DeepSpec == Init /\ [][DeepNext]_vars

\* C18: the live turn changes only when the text of a new turn arrives, and
\* the image is a field update.  While the request of a SelectChoice is
\* outstanding and the turn it was made on (an earlier one than the request) is
\* live, every step but Reset leaves that turn's text, choices and image as
\* they are; a non-terminal turn is published with storyPending false and no
\* scene image, imagePending being true when its image request starts; and
\* the arrival of an image result changes nothing but the scene image of the
\* live turn and imagePending.
C18_TurnReplacedOnlyByNewText ==
    [][ /\ \A c \in pendingStory \cap pendingStory' :
              (/\ c.choiceText # Null
               /\ currentTurn # NullTurn
               /\ currentTurn.tid < c.id
               /\ ~Handled("reset")) => currentTurn' = currentTurn
        /\ Handled("publish") =>
              /\ currentTurn'.tid = last'.call.id
              /\ currentTurn'.imageUrl = Undefined
              /\ ~isStoryLoading'
              /\ last'.call.id \in pendingImage' => isImageLoading'
        /\ Handled("image") =>
              /\ currentTurn' \in {currentTurn, [currentTurn EXCEPT !.imageUrl = last'.url]}
              /\ UNCHANGED <<mode, hp, inventory, isStoryLoading, isTypingComplete,
                             pendingStory>>
        /\ currentTurn'.tid # currentTurn.tid =>
              \/ Handled("publish") \/ Handled("gameover")
              \/ Handled("reset") \/ Handled("start")
      ]_vars

(* C19 *)

\* C19: at most one story request is outstanding at any time, and
\* storyPending is true exactly while one is outstanding.
C19_OneStoryRequest ==
    /\ Cardinality(pendingStory) <= 1
    /\ isStoryLoading <=> pendingStory # {}

(* C20 *)

\* C20: the theme is fixed for the whole session: every story request issued
\* by SelectChoice carries the theme of the opening request issued by the
\* StartGame that began the session.
C20_ThemeFixedForSession ==
    [][ Handled("choice") => last'.call.theme = openingTheme ]_vars

(* C21 *)

\* C21: GameOver is absorbing until Reset: from a state whose mode is
\* GAMEOVER every step other than Reset leaves the mode, the health, the
\* inventory and the live turn's narrative as they are, and a step that
\* leaves GAMEOVER is a Reset and leads to START.
C21_GameOverAbsorbing ==
    [][ mode = "GAMEOVER" =>
          /\ ~Handled("reset") =>
                /\ mode' = "GAMEOVER"
                /\ hp' = hp
                /\ inventory' = inventory
                /\ currentTurn'.text = currentTurn.text
          /\ mode' # "GAMEOVER" => (Handled("reset") /\ mode' = "START")
      ]_vars

====
